---- MODULE Spec2Model ----
(***************************************************************************)
(* Model of docs/examples/kfserving/src/tempo.py: the factory              *)
(* get_tempo_artifacts builds two Model handles and the pipeline           *)
(* `classifier`; the pipeline function routes a payload to the sklearn or  *)
(* the xgboost model.                                                      *)
(*                                                                         *)
(* Strings that are concatenated (paths) are sequences of tokens, so that  *)
(* an f-string is a concatenation; arrays are sequences of integers,       *)
(* 1-indexed here (res1[0] of the source is res1[1]).  A model call is     *)
(* external: it answers with any array or raises any error.                *)
(***************************************************************************)
EXTENDS Integers, Sequences, FiniteSets, TLC

\* ---- bounds of the model ----
MaxLen == 2
MaxVal == 2
MaxInvocations == 2

\* ---- input domains ----
Values == 0..MaxVal
Arrays == UNION {[1..n -> Values] : n \in 0..MaxLen}
Payloads == {<<5, 3>>, <<6>>}
Roots == {<<>>, <<"artifacts">>, <<"tmp", "/", "artifacts">>}
ModelErrors == {"FileNotFoundError", "RuntimeError"}

\* src.constants (imported at line 4)
SKLearnFolder == "sklearn"
XGBFolder == "xgboost"

\* ---- values ----
UnboundModel == [name |-> "", platform |-> "", local_folder |-> <<>>, uri |-> ""]
UnboundPipeline ==
    [name |-> "", uri |-> "", local_folder |-> <<>>,
     models |-> [sklearn |-> UnboundModel, xgboost |-> UnboundModel]]

\* Model(name=..., platform=..., local_folder=..., uri=...)
Model(name, platform, local_folder, uri) ==
    [name |-> name, platform |-> platform, local_folder |-> local_folder, uri |-> uri]

\* PipelineModels(sklearn=..., xgboost=...)
PipelineModels(sk, xgb) == [sklearn |-> sk, xgboost |-> xgb]

\* what a model call can produce: an array, or an error raised
NoResponse == [ok |-> FALSE, val |-> <<>>, err |-> ""]
Responses ==
    {[ok |-> TRUE, val |-> a, err |-> ""] : a \in Arrays}
    \cup {[ok |-> FALSE, val |-> <<>>, err |-> e] : e \in ModelErrors}

VARIABLES
    fpc,              \* position in get_tempo_artifacts
    artifacts_folder, \* its argument
    sklearn_model, xgboost_model, classifier,   \* its locals
    handles,          \* the tuple it returns
    pc,               \* position in classifier
    payload, res1,    \* classifier's argument and local
    ret, exc,         \* the pair returned (<<>>: none) / the exception raised ("": none)
    skResp, xgbResp,  \* what the sklearn / xgboost call answered in this invocation
    trace,            \* this invocation's calls, prints and tests, in order
    stdout,           \* the lines this invocation has written to the output stream
    stdoutLines,      \* number of lines written to the stream by all invocations
    invocations       \* number of invocations started

vars == <<fpc, artifacts_folder, sklearn_model, xgboost_model, classifier, handles,
          pc, payload, res1, ret, exc, skResp, xgbResp, trace, stdout, stdoutLines, invocations>>

factoryVars == <<fpc, artifacts_folder, sklearn_model, xgboost_model, classifier, handles>>
callVars ==
    <<pc, payload, res1, ret, exc, skResp, xgbResp, trace, stdout, stdoutLines, invocations>>

Init ==
    /\ fpc = "l13"
    /\ artifacts_folder \in Roots
    /\ sklearn_model = UnboundModel
    /\ xgboost_model = UnboundModel
    /\ classifier = UnboundPipeline
    /\ handles = <<>>
    /\ pc = "idle"
    /\ payload = <<>>
    /\ res1 = <<>>
    /\ ret = <<>>
    /\ exc = ""
    /\ skResp = NoResponse
    /\ xgbResp = NoResponse
    /\ trace = <<>>
    /\ stdout = <<>>
    /\ stdoutLines = 0
    /\ invocations = 0

\* ---- get_tempo_artifacts ----

\* f"{artifacts_folder}/{SKLearnFolder}"
SklearnLocalFolder(root) == root \o <<"/", SKLearnFolder>>

\* mutant: the artifacts root is left out of the path
XgboostLocalFolder_relative(root) == <<XGBFolder>>

\* f"{artifacts_folder}/{XGBFolder}"
XgboostLocalFolder(root) == root \o <<"/", XGBFolder>>

\* f"{artifacts_folder}/classifier"
PipelineLocalFolder(root) == root \o <<"/", "classifier">>

\* sklearn_model = Model(...)
Line13 ==
    /\ fpc = "l13"
    /\ sklearn_model' = Model("test-iris-sklearn", "SKLearn",
                              SklearnLocalFolder(artifacts_folder),
                              "s3://tempo/basic/sklearn")
    /\ fpc' = "l20"
    /\ UNCHANGED <<artifacts_folder, xgboost_model, classifier, handles>>
    /\ UNCHANGED callVars

\* xgboost_model = Model(...)
Line20 ==
    /\ fpc = "l20"
    /\ xgboost_model' = Model("test-iris-xgboost", "XGBoost",
                              XgboostLocalFolder(artifacts_folder),
                              "s3://tempo/basic/xgboost")
    /\ fpc' = "l27"
    /\ UNCHANGED <<artifacts_folder, sklearn_model, classifier, handles>>
    /\ UNCHANGED callVars

\* mutant: the pipeline is declared before the xgboost model is constructed
Line27_beforeXgboost ==
    /\ fpc = "l20"
    /\ classifier' = [name |-> "classifier",
                      uri |-> "s3://tempo/basic/pipeline",
                      local_folder |-> artifacts_folder \o <<"/", "classifier">>,
                      models |-> PipelineModels(sklearn_model, xgboost_model)]
    /\ fpc' = "l41"
    /\ UNCHANGED <<artifacts_folder, sklearn_model, xgboost_model, handles>>
    /\ UNCHANGED callVars

\* @pipeline(name=..., uri=..., local_folder=..., models=PipelineModels(...))
Line27 ==
    /\ fpc = "l27"
    /\ classifier' = [name |-> "classifier",
                      uri |-> "s3://tempo/basic/pipeline",
                      local_folder |-> PipelineLocalFolder(artifacts_folder),
                      models |-> PipelineModels(sklearn_model, xgboost_model)]
    /\ fpc' = "l41"
    /\ UNCHANGED <<artifacts_folder, sklearn_model, xgboost_model, handles>>
    /\ UNCHANGED callVars

\* return classifier, sklearn_model, xgboost_model
Line41 ==
    /\ fpc = "l41"
    /\ handles' = <<classifier, sklearn_model, xgboost_model>>
    /\ fpc' = "done"
    /\ UNCHANGED <<artifacts_folder, sklearn_model, xgboost_model, classifier>>
    /\ UNCHANGED callVars

\* ---- classifier(payload) ----

CallEvent(m, arg) == [ev |-> "call", model |-> m.name, arg |-> arg]
PrintEvent(a) == [ev |-> "print", model |-> "", arg |-> a]
TestEvent == [ev |-> "test", model |-> "", arg |-> <<>>]

Terminal == {"returned", "raised"}

\* A caller that holds the returned pipeline invokes it; a new frame starts.
\* The stream is append-only and never read back: the lines of earlier
\* invocations are kept as a count only.
Invoke ==
    /\ fpc = "done"
    /\ pc \in {"idle"} \cup Terminal
    /\ invocations < MaxInvocations
    /\ \E p \in Payloads : payload' = p
    /\ pc' = "l34"
    /\ res1' = <<>>
    /\ ret' = <<>>
    /\ exc' = ""
    /\ skResp' = NoResponse
    /\ xgbResp' = NoResponse
    /\ trace' = <<>>
    /\ invocations' = invocations + 1
    /\ stdout' = <<>>
    /\ UNCHANGED stdoutLines
    /\ UNCHANGED factoryVars

\* res1 = classifier.models.sklearn(input=payload)
Line34 ==
    /\ pc = "l34"
    /\ trace' = Append(trace, CallEvent(classifier.models.sklearn, payload))
    /\ \E r \in Responses :
        /\ skResp' = r
        /\ IF r.ok
              THEN res1' = r.val /\ pc' = "l35" /\ exc' = exc
              ELSE res1' = res1 /\ pc' = "raised" /\ exc' = r.err
    /\ UNCHANGED <<payload, ret, xgbResp, stdout, stdoutLines, invocations>>
    /\ UNCHANGED factoryVars

\* mutant: the diagnostic print is dropped
Line35_silent ==
    /\ pc = "l35"
    /\ pc' = "l36"
    /\ UNCHANGED <<payload, res1, ret, exc, skResp, xgbResp, trace, stdout, stdoutLines,
                   invocations>>
    /\ UNCHANGED factoryVars

\* print(res1)
Line35 ==
    /\ pc = "l35"
    /\ stdout' = Append(stdout, res1)
    /\ stdoutLines' = stdoutLines + 1
    /\ trace' = Append(trace, PrintEvent(res1))
    /\ pc' = "l36"
    /\ UNCHANGED <<payload, res1, ret, exc, skResp, xgbResp, invocations>>
    /\ UNCHANGED factoryVars

\* mutant: the last element is tested instead of the first
FirstIsOne_last(res) == res[Len(res)] = 1

\* res1[0] == 1
FirstIsOne(res) == res[1] = 1

\* if res1[0] == 1: ... else: ...   (indexing an empty array raises IndexError)
Line36 ==
    /\ pc = "l36"
    /\ trace' = Append(trace, TestEvent)
    /\ IF Len(res1) = 0
          THEN pc' = "raised" /\ exc' = "IndexError"
          ELSE /\ pc' = IF FirstIsOne(res1) THEN "l37" ELSE "l39"
               /\ exc' = exc
    /\ UNCHANGED <<payload, res1, ret, skResp, xgbResp, stdout, stdoutLines, invocations>>
    /\ UNCHANGED factoryVars

SklearnTag == "sklearn prediction"

\* mutant: a misspelt tag
XgboostTag_typo == "xgboost predicton"

XgboostTag == "xgboost prediction"

\* mutant: the sklearn branch also asks the xgboost model, and drops its answer
Line37_alsoXgboost ==
    /\ pc = "l37"
    /\ trace' = Append(trace, [ev |-> "call", model |-> classifier.models.xgboost.name,
                                arg |-> payload])
    /\ ret' = <<res1, SklearnTag>>
    /\ pc' = "returned"
    /\ UNCHANGED <<payload, res1, exc, skResp, xgbResp, stdout, stdoutLines, invocations>>
    /\ UNCHANGED factoryVars

\* mutant: the sklearn branch rebinds the pipeline's xgboost role to the sklearn model
Line37_rebind ==
    /\ pc = "l37"
    /\ ret' = <<res1, SklearnTag>>
    /\ pc' = "returned"
    /\ classifier' = [classifier EXCEPT !.models.xgboost = classifier.models.sklearn]
    /\ UNCHANGED <<payload, res1, exc, skResp, xgbResp, trace, stdout, stdoutLines,
                   invocations>>
    /\ UNCHANGED <<fpc, artifacts_folder, sklearn_model, xgboost_model, handles>>

\* return res1, "sklearn prediction"
Line37 ==
    /\ pc = "l37"
    /\ ret' = <<res1, SklearnTag>>
    /\ pc' = "returned"
    /\ UNCHANGED <<payload, res1, exc, skResp, xgbResp, trace, stdout, stdoutLines,
                   invocations>>
    /\ UNCHANGED factoryVars

\* mutant: the sklearn result is returned under the xgboost tag
Line39_sklearnResult ==
    /\ pc = "l39"
    /\ trace' = Append(trace, [ev |-> "call", model |-> classifier.models.xgboost.name,
                                arg |-> payload])
    /\ \E r \in Responses :
        /\ xgbResp' = r
        /\ IF r.ok
              THEN ret' = <<res1, XgboostTag>> /\ pc' = "returned" /\ exc' = exc
              ELSE ret' = ret /\ pc' = "raised" /\ exc' = r.err
    /\ UNCHANGED <<payload, res1, skResp, stdout, stdoutLines, invocations>>
    /\ UNCHANGED factoryVars

\* mutant: a failing xgboost call falls back to the sklearn result
Line39_fallback ==
    /\ pc = "l39"
    /\ trace' = Append(trace, [ev |-> "call", model |-> classifier.models.xgboost.name,
                                arg |-> payload])
    /\ \E r \in Responses :
        /\ xgbResp' = r
        /\ ret' = IF r.ok THEN <<r.val, XgboostTag>> ELSE <<res1, SklearnTag>>
        /\ pc' = "returned"
        /\ exc' = exc
    /\ UNCHANGED <<payload, res1, skResp, stdout, stdoutLines, invocations>>
    /\ UNCHANGED factoryVars

\* mutant: the xgboost model is given the sklearn result instead of the payload
Line39_passRes1 ==
    /\ pc = "l39"
    /\ trace' = Append(trace, [ev |-> "call", model |-> classifier.models.xgboost.name,
                                arg |-> res1])
    /\ \E r \in Responses :
        /\ xgbResp' = r
        /\ IF r.ok
              THEN ret' = <<r.val, XgboostTag>> /\ pc' = "returned" /\ exc' = exc
              ELSE ret' = ret /\ pc' = "raised" /\ exc' = r.err
    /\ UNCHANGED <<payload, res1, skResp, stdout, stdoutLines, invocations>>
    /\ UNCHANGED factoryVars

\* return classifier.models.xgboost(input=payload), "xgboost prediction"
Line39 ==
    /\ pc = "l39"
    /\ trace' = Append(trace, CallEvent(classifier.models.xgboost, payload))
    /\ \E r \in Responses :
        /\ xgbResp' = r
        /\ IF r.ok
              THEN ret' = <<r.val, XgboostTag>> /\ pc' = "returned" /\ exc' = exc
              ELSE ret' = ret /\ pc' = "raised" /\ exc' = r.err
    /\ UNCHANGED <<payload, res1, skResp, stdout, stdoutLines, invocations>>
    /\ UNCHANGED factoryVars

Next ==
    \/ Line13
    \/ Line20
    \/ Line27
    \/ Line41
    \/ Invoke
    \/ Line34
    \/ Line35
    \/ Line36
    \/ Line37
    \/ Line39

Spec == Init /\ [][Next]_vars

\* ---- vocabulary of the properties ----

\* positions in this invocation's trace
CallsTo(name) == {i \in DOMAIN trace : trace[i].ev = "call" /\ trace[i].model = name}
AllCalls == {i \in DOMAIN trace : trace[i].ev = "call"}
Prints == {i \in DOMAIN trace : trace[i].ev = "print"}
Tests == {i \in DOMAIN trace : trace[i].ev = "test"}

\* the sklearn call answered an array whose first element is / is not 1
SkSaysOne == skResp.ok /\ Len(skResp.val) > 0 /\ skResp.val[1] = 1
SkSaysOther == skResp.ok /\ Len(skResp.val) > 0 /\ skResp.val[1] # 1

SkFailed == ~skResp.ok /\ skResp.err # ""
XgbFailed == ~xgbResp.ok /\ xgbResp.err # ""

\* a path below root: root, a separator, and something after it
IsSubpath(path, root) ==
    /\ Len(path) > Len(root) + 1
    /\ SubSeq(path, 1, Len(root)) = root
    /\ path[Len(root) + 1] = "/"

\* ---- properties ----

\* C1: when the sklearn call answers an array whose first element is 1, the
\* invocation returns exactly (that array, "sklearn prediction") and the
\* xgboost model is never invoked in it.
C1_SklearnRoute ==
    SkSaysOne =>
        /\ CallsTo("test-iris-xgboost") = {}
        /\ xgbResp = NoResponse
        /\ pc \notin {"l39", "raised"}
        /\ pc = "returned" => ret = <<skResp.val, "sklearn prediction">>

C1_Witness ==
    /\ pc = "returned"
    /\ SkSaysOne
    /\ Len(skResp.val) = 2
    /\ skResp.val[2] # 1

C3_Original ==
    pc \in Terminal =>
        /\ pc = "returned"
        /\ Len(ret) = 2
        /\ ret[2] \in {"sklearn prediction", "xgboost prediction"}

\* C3 amended: an invocation that returns, returns one of the two tags
\* ("sklearn prediction" exactly when the first element of the sklearn answer
\* is 1); the only other way an invocation ends is a raised failure with no
\* pair returned: a model call's failure, or the IndexError of reading the
\* first element of an empty sklearn answer.
C3_TwoTagsOrFailure ==
    /\ pc \notin Terminal => ret = <<>> /\ exc = ""
    /\ pc = "returned" =>
        /\ exc = ""
        /\ Len(ret) = 2
        /\ ret[2] \in {"sklearn prediction", "xgboost prediction"}
        /\ ret[2] = "sklearn prediction" <=> SkSaysOne
        /\ ret[2] = "xgboost prediction" <=> SkSaysOther
    /\ pc = "raised" =>
        /\ ret = <<>>
        /\ \/ SkFailed /\ exc = skResp.err
           \/ skResp.ok /\ skResp.val = <<>> /\ exc = "IndexError"
           \/ SkSaysOther /\ XgbFailed /\ exc = xgbResp.err

C3_Witness ==
    /\ pc = "returned"
    /\ ret[2] = "xgboost prediction"
    /\ invocations = 2

\* C4: the factory returns (pipeline, sklearn model, xgboost model); the local
\* paths are root/<SKLearnFolder>, root/<XGBFolder> and root/classifier, each
\* a subpath of the root; the remote URIs are the three fixed ones; the two
\* model names are the two distinct fixed names.
C4_FactoryHandles ==
    fpc = "done" =>
        /\ Len(handles) = 3
        /\ handles[1].name = "classifier"
        /\ handles[1].models = [sklearn |-> handles[2], xgboost |-> handles[3]]
        /\ handles[2].platform = "SKLearn"
        /\ handles[3].platform = "XGBoost"
        /\ handles[2].local_folder = artifacts_folder \o <<"/">> \o <<SKLearnFolder>>
        /\ handles[3].local_folder = artifacts_folder \o <<"/">> \o <<XGBFolder>>
        /\ handles[1].local_folder = artifacts_folder \o <<"/">> \o <<"classifier">>
        /\ \A i \in 1..3 : IsSubpath(handles[i].local_folder, artifacts_folder)
        /\ handles[2].uri = "s3://tempo/basic/sklearn"
        /\ handles[3].uri = "s3://tempo/basic/xgboost"
        /\ handles[1].uri = "s3://tempo/basic/pipeline"
        /\ handles[2].name = "test-iris-sklearn"
        /\ handles[3].name = "test-iris-xgboost"
        /\ handles[2].name # handles[3].name

C4_Witness ==
    /\ fpc = "done"
    /\ Len(artifacts_folder) = 3
    /\ Len(handles) = 3

\* C5 as stated: at most two model calls in an invocation, and never both
\* models in the same invocation.
C5_Original ==
    /\ Cardinality(AllCalls) <= 2
    /\ ~(CallsTo("test-iris-sklearn") # {} /\ CallsTo("test-iris-xgboost") # {})

\* C5 amended: at most two model calls in an invocation, one after the other
\* and each model at most once; when the first element of the sklearn answer
\* is 1 only the sklearn model is invoked, and both models are invoked only
\* when it is not 1.
C5_AtMostTwoCalls ==
    /\ Cardinality(AllCalls) <= 2
    /\ Cardinality(CallsTo("test-iris-sklearn")) <= 1
    /\ Cardinality(CallsTo("test-iris-xgboost")) <= 1
    /\ SkSaysOne => AllCalls = CallsTo("test-iris-sklearn")
    /\ Cardinality(AllCalls) = 2 =>
        /\ SkSaysOther
        /\ trace[1].model = "test-iris-sklearn"
        /\ trace[Len(trace)].model = "test-iris-xgboost"

C5_Witness ==
    /\ pc \in Terminal
    /\ CallsTo("test-iris-sklearn") # {}
    /\ CallsTo("test-iris-xgboost") # {}

\* C6: a failing sklearn call ends the invocation with that failure, no pair
\* returned, no second sklearn call and no xgboost call; a failing xgboost
\* call ends it with that failure, no second xgboost call and no pair built
\* from the sklearn answer.
C6_FailurePropagates ==
    /\ SkFailed =>
        /\ pc = "raised"
        /\ exc = skResp.err
        /\ ret = <<>>
        /\ Len(trace) = 1
        /\ AllCalls = CallsTo("test-iris-sklearn")
        /\ xgbResp = NoResponse
    /\ XgbFailed =>
        /\ pc = "raised"
        /\ exc = xgbResp.err
        /\ ret = <<>>
        /\ Cardinality(CallsTo("test-iris-xgboost")) = 1
        /\ Cardinality(CallsTo("test-iris-sklearn")) = 1
        /\ trace[Len(trace)].model = "test-iris-xgboost"

C6_Witness ==
    /\ XgbFailed
    /\ skResp.ok
    /\ pc = "raised"
    /\ exc = "FileNotFoundError"

\* C7: the sklearn model is invoked exactly once and first; the xgboost model
\* at most once, only after the sklearn call answered an array whose first
\* element was tested and is not 1, and with the payload the sklearn model got.
C7_CallOrder ==
    /\ pc \in {"idle", "l34"} => AllCalls = {}
    /\ pc \notin {"idle", "l34"} =>
        /\ CallsTo("test-iris-sklearn") = {1}
        /\ trace[1].arg = payload
    /\ AllCalls = CallsTo("test-iris-sklearn") \cup CallsTo("test-iris-xgboost")
    /\ Cardinality(CallsTo("test-iris-xgboost")) <= 1
    /\ \A i \in CallsTo("test-iris-xgboost") :
        /\ SkSaysOther
        /\ \E t \in Tests : 1 < t /\ t < i
        /\ trace[i].arg = payload
        /\ trace[i].arg = trace[1].arg

C7_Witness ==
    /\ CallsTo("test-iris-xgboost") # {}
    /\ pc = "returned"
    /\ payload # skResp.val

\* C8: once the sklearn call has answered, its answer is written to the output
\* stream exactly once, right after the call and before the test of the first
\* element, any xgboost call and the return; when the sklearn call fails
\* nothing is written.
C8_PrintOnce ==
    /\ (skResp.ok /\ pc # "l35") =>
        /\ Prints = {2}
        /\ trace[2].arg = skResp.val
        /\ stdout = <<skResp.val>>
        /\ CallsTo("test-iris-sklearn") = {1}
    /\ (~skResp.ok \/ pc = "l35") =>
        /\ Prints = {}
        /\ stdout = <<>>
    /\ \A i \in Tests \cup CallsTo("test-iris-xgboost") : \E j \in Prints : j < i
    /\ pc \in {"l37", "l39", "returned"} => Prints # {} /\ Tests # {}
    /\ stdoutLines <= invocations

C8_Witness ==
    /\ pc = "returned"
    /\ xgbResp.ok
    /\ Prints = {2}
    /\ stdoutLines = 2

\* C9: the pipeline, once declared, holds exactly the two constructed models
\* under the roles sklearn and xgboost, and every model an invocation calls is
\* one of them.
C9_DeclaredModelsOnly ==
    /\ DOMAIN classifier.models = {"sklearn", "xgboost"}
    /\ classifier # UnboundPipeline =>
        /\ sklearn_model # UnboundModel
        /\ xgboost_model # UnboundModel
        /\ classifier.models.sklearn = sklearn_model
        /\ classifier.models.xgboost = xgboost_model
    /\ pc # "idle" => classifier # UnboundPipeline
    /\ \A i \in AllCalls :
        /\ trace[i].model # UnboundModel.name
        /\ \E role \in DOMAIN classifier.models :
            trace[i].model = classifier.models[role].name

C9_Witness ==
    /\ CallsTo("test-iris-xgboost") # {}
    /\ CallsTo("test-iris-sklearn") # {}
    /\ classifier.models.xgboost = xgboost_model

\* the outcome <<pair returned, failure raised>> as a function of the two
\* models' answers alone
OutcomeOf(sk, xgb) ==
    IF ~sk.ok THEN <<<<>>, sk.err>>
    ELSE IF sk.val = <<>> THEN <<<<>>, "IndexError">>
    ELSE IF sk.val[1] = 1 THEN <<<<sk.val, "sklearn prediction">>, "">>
    ELSE IF xgb.ok THEN <<<<xgb.val, "xgboost prediction">>, "">>
    ELSE <<<<>>, xgb.err>>

\* C10: no step of an invocation changes the pipeline, its models grouping or
\* the two model handles, and the outcome of an invocation is a function of
\* the answers of the model calls of that invocation, whatever earlier
\* invocations did.
C10_NoSharedState ==
    [][fpc = "done" =>
        /\ UNCHANGED <<classifier, sklearn_model, xgboost_model, handles, artifacts_folder>>
        /\ pc' \in Terminal => <<ret', exc'>> = OutcomeOf(skResp', xgbResp')]_vars

C10_Witness ==
    /\ invocations = 2
    /\ stdoutLines = 2
    /\ pc = "returned"
    /\ classifier = handles[1]
====
